---------------------------- MODULE Spec2Model ----------------------------
(***************************************************************************)
(* A model of the Wordle solver of src/wordler.py (class WordleSolver):    *)
(* the feedback encoder, the knowledge state, the candidate filter, the    *)
(* two guess selectors and the interactive loop of run().                  *)
(*                                                                         *)
(* A word is a sequence of one-character strings, <<"a","b">> for "ab".    *)
(* Sequences are 1-based; the positions the source stores as data (the     *)
(* sets of yellow_misplaced) keep the source's 0-based numbers.            *)
(***************************************************************************)
EXTENDS Integers, Sequences, FiniteSets, TLC

VARIABLES
    word_length,        \* self.word_length
    all_words,          \* self.all_words, as a sequence: the set in its iteration order
    possible_words,     \* self.possible_words (a list)
    algorithm,          \* self.algorithm
    hard_mode,          \* self.hard_mode
    green_pattern,      \* self.green_pattern
    yellow_misplaced,   \* self.yellow_misplaced: letter -> set of 0-based positions
    letter_min_counts,  \* self.letter_min_counts: letter -> count
    letter_max_counts,  \* self.letter_max_counts: letter -> count
    greys,              \* self.greys
    turn,               \* self.turn
    pc,                 \* where run() stands
    suggested_guess,    \* run()'s suggested_guess (None before the first suggestion)
    last_guess,         \* run()'s last_guess
    word_file,          \* the lines of the file at self.word_list_path
    secret,             \* the word the player is facing (None when the feedback is free)
    secrets,            \* the words that would have given every result typed so far
    pattern             \* the encoder's last result (None before it has run)

vars == <<word_length, all_words, possible_words, algorithm, hard_mode,
          green_pattern, yellow_misplaced, letter_min_counts,
          letter_max_counts, greys, turn, pc, suggested_guess, last_guess,
          word_file, secret, secrets, pattern>>

knowledge == <<green_pattern, yellow_misplaced, letter_min_counts,
               letter_max_counts, greys>>

-----------------------------------------------------------------------------
(* Bounds of the model *)

\* The session is cut off when the turn counter reaches MaxTurn.
MaxTurn == 3

-----------------------------------------------------------------------------
(* Values *)

\* Python's None, as a value that can be compared with a word: a sequence
\* that holds one token that is no character.
None == <<"None">>

Range(s) == {s[i] : i \in 1..Len(s)}

\* The letters of the words the encoder and the hard mode rules are tried on.
Letters == {"a", "b", "c"}

\* The three marks of a result: green, yellow, grey.
Marks == {"g", "y", "-"}

\* All strings of length n over the characters cs.
Strings(cs, n) == [1..n -> cs]

\* The letters of a secret word: those of the guesses the player makes up
\* and two that are never in them.
SecretLetters == Letters \cup {"d"}

\* str.lower(), on the characters the model types.
LowerChar(c) ==
    CASE c = "A" -> "a"
      [] c = "B" -> "b"
      [] c = "G" -> "g"
      [] c = "Y" -> "y"
      [] OTHER -> c

Lower(s) == [i \in 1..Len(s) |-> LowerChar(s[i])]

\* The number of positions of word w that hold c: Counter(w)[c].
Count(w, c) == Cardinality({i \in 1..Len(w) : w[i] = c})

-----------------------------------------------------------------------------
(* _get_pattern: the feedback of a guess against an answer *)

\* A first pass that marks 'g' wherever the letter of the guess occurs in the
\* answer, at that place or at another.
GreenPassAnywhere(L, guess, answer) ==
    [i \in 1..L |-> IF guess[i] \in Range(answer) THEN "g" ELSE "-"]

\* The first pass: 'g' where the letters agree, and those places of the
\* answer are used.
GreenPass(L, guess, answer) ==
    [i \in 1..L |-> IF guess[i] = answer[i] THEN "g" ELSE "-"]

UsedAfterGreen(L, guess, answer) ==
    [i \in 1..L |-> guess[i] = answer[i]]

\* A second pass that marks 'y' and leaves the place of the answer unused.
RECURSIVE YellowPassNoUse(_, _, _, _, _, _)
YellowPassNoUse(L, guess, answer, i, pat, used) ==
    IF i > L THEN pat
    ELSE IF pat[i] = "-"
              /\ \E j \in 1..L : ~used[j] /\ guess[i] = answer[j]
         THEN YellowPassNoUse(L, guess, answer, i + 1,
                              [pat EXCEPT ![i] = "y"], used)
         ELSE YellowPassNoUse(L, guess, answer, i + 1, pat, used)

\* The second pass from position i on: a position still '-' takes the first
\* unused place of the answer that holds its letter, and is marked 'y'.
RECURSIVE YellowPass(_, _, _, _, _, _)
YellowPass(L, guess, answer, i, pat, used) ==
    IF i > L THEN pat
    ELSE IF pat[i] = "-"
              /\ \E j \in 1..L : ~used[j] /\ guess[i] = answer[j]
         THEN LET j == CHOOSE k \in 1..L :
                          /\ ~used[k] /\ guess[i] = answer[k]
                          /\ \A m \in 1..(k - 1) :
                                 ~(~used[m] /\ guess[i] = answer[m])
              IN  YellowPass(L, guess, answer, i + 1,
                             [pat EXCEPT ![i] = "y"],
                             [used EXCEPT ![j] = TRUE])
         ELSE YellowPass(L, guess, answer, i + 1, pat, used)

GetPattern(L, guess, answer) ==
    YellowPass(L, guess, answer, 1,
               GreenPass(L, guess, answer), UsedAfterGreen(L, guess, answer))

-----------------------------------------------------------------------------
(* sim.py, check_guess: the feedback the game gives *)

\* The three squares of the game's feedback (U+1F7E9, U+1F7E8, U+2B1C U+FE0F).
GreenSquare == "green square"
YellowSquare == "yellow square"
WhiteSquare == "white square"

\* list.remove(x): the list without the first occurrence of x.
RECURSIVE ListRemove(_, _)
ListRemove(list, x) ==
    IF Len(list) = 0 THEN list
    ELSE IF Head(list) = x THEN Tail(list)
    ELSE <<Head(list)>> \o ListRemove(Tail(list), x)

\* The first pass: a green square where the letters agree ('' elsewhere).
SimGreenPass(guess, secret_word) ==
    [i \in 1..Len(secret_word) |->
        IF guess[i] = secret_word[i] THEN GreenSquare ELSE ""]

\* secret_letters after the first pass: None at the green places.
SimSecretLetters(guess, secret_word) ==
    [i \in 1..Len(secret_word) |->
        IF guess[i] = secret_word[i] THEN "None" ELSE secret_word[i]]

\* A second pass that leaves the letter in secret_letters.
RECURSIVE SimYellowPassNoRemove(_, _, _, _)
SimYellowPassNoRemove(guess, i, result, secret_letters) ==
    IF i > Len(result) THEN result
    ELSE IF result[i] = "" /\ guess[i] \in Range(secret_letters)
         THEN SimYellowPassNoRemove(guess, i + 1,
                                    [result EXCEPT ![i] = YellowSquare],
                                    secret_letters)
         ELSE SimYellowPassNoRemove(guess, i + 1, result, secret_letters)

\* The second pass from position i on: a place still '' whose letter is in
\* secret_letters gets a yellow square, and the letter is removed once.
RECURSIVE SimYellowPass(_, _, _, _)
SimYellowPass(guess, i, result, secret_letters) ==
    IF i > Len(result) THEN result
    ELSE IF result[i] = "" /\ guess[i] \in Range(secret_letters)
         THEN SimYellowPass(guess, i + 1,
                            [result EXCEPT ![i] = YellowSquare],
                            ListRemove(secret_letters, guess[i]))
         ELSE SimYellowPass(guess, i + 1, result, secret_letters)

\* The third pass: a white square at every place still ''.
SimGreyPass(result) ==
    [i \in 1..Len(result) |-> IF result[i] = "" THEN WhiteSquare ELSE result[i]]

\* check_guess, as the list of squares it joins.
CheckGuess(guess, secret_word) ==
    SimGreyPass(SimYellowPass(guess, 1, SimGreenPass(guess, secret_word),
                              SimSecretLetters(guess, secret_word)))

-----------------------------------------------------------------------------
(* _update_knowledge: what a guess and its results add to the knowledge *)

Max2(x, y) == IF x > y THEN x ELSE y

\* Counter.__getitem__ and dict.get(c, 0): 0 for a missing key.
Get0(f, c) == IF c \in DOMAIN f THEN f[c] ELSE 0

\* The number of positions of the guess that hold char and are marked mark.
MarkCount(guess, results, char, mark) ==
    Cardinality({i \in 1..Len(guess) : guess[i] = char /\ results[i] = mark})

\* min_count = green_count + yellow_count
MinCount(guess, results, char) ==
    MarkCount(guess, results, char, "g") + MarkCount(guess, results, char, "y")

\* self.green_pattern[i] = char, for every position marked 'g'
UpdateGreen(gp, guess, results) ==
    [i \in 1..Len(gp) |->
        IF i <= Len(guess) /\ results[i] = "g" THEN guess[i] ELSE gp[i]]

\* An update that keeps, for a letter marked 'y', only the positions of this
\* guess: self.yellow_misplaced[char] = {i}.
UpdateYellowReplace(ym, guess, results) ==
    LET marked == {guess[i] : i \in {k \in 1..Len(guess) : results[k] = "y"}}
    IN  [c \in DOMAIN ym \cup marked |->
            IF c \in marked
            THEN {i - 1 : i \in {k \in 1..Len(guess) :
                                     guess[k] = c /\ results[k] = "y"}}
            ELSE ym[c]]

\* self.yellow_misplaced[char].add(i), for every position marked 'y'
UpdateYellow(ym, guess, results) ==
    LET marked == {guess[i] : i \in {k \in 1..Len(guess) : results[k] = "y"}}
    IN  [c \in DOMAIN ym \cup marked |->
            (IF c \in DOMAIN ym THEN ym[c] ELSE {})
            \cup {i - 1 : i \in {k \in 1..Len(guess) :
                                     guess[k] = c /\ results[k] = "y"}}]

\* An update that adds the marks of this guess to the count:
\* self.letter_min_counts[char] += min_count.
UpdateMinSum(mn, guess, results) ==
    [c \in DOMAIN mn \cup Range(guess) |->
        IF c \in Range(guess)
        THEN Get0(mn, c) + MinCount(guess, results, c)
        ELSE mn[c]]

\* self.letter_min_counts[char] = max(self.letter_min_counts[char], min_count)
UpdateMin(mn, guess, results) ==
    [c \in DOMAIN mn \cup Range(guess) |->
        IF c \in Range(guess)
        THEN Max2(Get0(mn, c), MinCount(guess, results, c))
        ELSE mn[c]]

\* An update that records no maximal count.
UpdateMaxNever(mx, guess, results) == mx

\* An update that caps a letter with a grey mark at its green marks alone:
\* self.letter_max_counts[char] = green_count.
UpdateMaxGreenCount(mx, guess, results) ==
    LET capped == {c \in Range(guess) : MarkCount(guess, results, c, "-") > 0}
    IN  [c \in DOMAIN mx \cup capped |->
            IF c \in capped THEN MarkCount(guess, results, c, "g") ELSE mx[c]]

\* if grey_count > 0: self.letter_max_counts[char] = min_count
UpdateMax(mx, guess, results) ==
    LET capped == {c \in Range(guess) : MarkCount(guess, results, c, "-") > 0}
    IN  [c \in DOMAIN mx \cup capped |->
            IF c \in capped THEN MinCount(guess, results, c) ELSE mx[c]]

\* if green_count == 0 and yellow_count == 0: self.greys.add(char)
UpdateGreys(gs, guess, results) ==
    gs \cup {c \in Range(guess) :
                /\ MarkCount(guess, results, c, "g") = 0
                /\ MarkCount(guess, results, c, "y") = 0}

-----------------------------------------------------------------------------
(* _filter_words: the words that agree with the knowledge *)

\* green_regex.match(word): the green pattern with '.' for every '-'.
GreenMatch(gp, word) ==
    /\ Len(word) >= Len(gp)
    /\ \A i \in 1..Len(gp) : gp[i] = "-" \/ word[i] = gp[i]

\* A loop body without the test of the yellow positions.
KeepsNoYellow(word, gp, ym, mn, mx, gs) ==
    /\ GreenMatch(gp, word)
    /\ ~(\E i \in 1..Len(word) : word[i] \in gs)
    /\ \A c \in DOMAIN mn : ~(Count(word, c) < mn[c])
    /\ \A c \in DOMAIN mx : ~(Count(word, c) # mx[c])

\* A loop body without the test of the maximal counts.
KeepsNoMax(word, gp, ym, mn, mx, gs) ==
    /\ GreenMatch(gp, word)
    /\ ~(\E i \in 1..Len(word) : word[i] \in gs)
    /\ \A c \in DOMAIN mn : ~(Count(word, c) < mn[c])
    /\ \A c \in DOMAIN ym : ~(\E pos \in ym[c] : word[pos + 1] = c)

\* The body of the loop of _filter_words: TRUE when the word is appended.
Keeps(word, gp, ym, mn, mx, gs) ==
    /\ GreenMatch(gp, word)
    /\ ~(\E i \in 1..Len(word) : word[i] \in gs)
    /\ \A c \in DOMAIN mn : ~(Count(word, c) < mn[c])
    /\ \A c \in DOMAIN mx : ~(Count(word, c) # mx[c])
    /\ \A c \in DOMAIN ym : ~(\E pos \in ym[c] : word[pos + 1] = c)

\* A filter that starts over from the words of the session's length in
\* self.all_words, not from the possible words.
FilterWordsFromAllWords(pw, gp, ym, mn, mx, gs) ==
    SelectSeq(all_words,
              LAMBDA w : Len(w) = word_length /\ Keeps(w, gp, ym, mn, mx, gs))

FilterWords(pw, gp, ym, mn, mx, gs) ==
    SelectSeq(pw, LAMBDA w : Keeps(w, gp, ym, mn, mx, gs))

-----------------------------------------------------------------------------
(* _is_valid_hard_mode_guess *)

\* A validator that looks at the green letters only.
IsValidHardModeGuessGreenOnly(guess, gp, ym) ==
    \A i \in 1..Len(gp) : ~(gp[i] # "-" /\ guess[i] # gp[i])

IsValidHardModeGuess(guess, gp, ym) ==
    /\ \A i \in 1..Len(gp) : ~(gp[i] # "-" /\ guess[i] # gp[i])
    /\ \A c \in DOMAIN ym : c \in Range(guess)

-----------------------------------------------------------------------------
(* find_best_guess_frequency *)

\* letter_frequency[letter]: the number of possible words that hold the letter.
LetterFrequency(pw, letter) ==
    Cardinality({i \in 1..Len(pw) : letter \in Range(pw[i])})

RECURSIVE SumFrequency(_, _)
SumFrequency(pw, letters) ==
    IF letters = {} THEN 0
    ELSE LET c == CHOOSE x \in letters : TRUE
         IN  LetterFrequency(pw, c) + SumFrequency(pw, letters \ {c})

\* score = sum(letter_frequency[letter] for letter in set(word))
Score(pw, word) == SumFrequency(pw, Range(word))

\* A scoring loop that also takes a word of equal score: score >= max_score.
RECURSIVE FrequencyScanLast(_, _, _, _)
FrequencyScanLast(pw, i, best_word, max_score) ==
    IF i > Len(pw) THEN best_word
    ELSE IF Score(pw, pw[i]) >= max_score
         THEN FrequencyScanLast(pw, i + 1, pw[i], Score(pw, pw[i]))
         ELSE FrequencyScanLast(pw, i + 1, best_word, max_score)

\* The scoring loop from the i-th possible word on.
RECURSIVE FrequencyScan(_, _, _, _)
FrequencyScan(pw, i, best_word, max_score) ==
    IF i > Len(pw) THEN best_word
    ELSE IF Score(pw, pw[i]) > max_score
         THEN FrequencyScan(pw, i + 1, pw[i], Score(pw, pw[i]))
         ELSE FrequencyScan(pw, i + 1, best_word, max_score)

\* A selector without the guard "if not self.possible_words: return None".
FindBestGuessFrequencyNoGuard(pw) ==
    IF Len(pw) = 1 THEN pw[1]
    ELSE FrequencyScan(pw, 1, <<>>, -1)

FindBestGuessFrequency(pw) ==
    IF Len(pw) = 0 THEN None
    ELSE IF Len(pw) = 1 THEN pw[1]
    ELSE FrequencyScan(pw, 1, <<>>, -1)

-----------------------------------------------------------------------------
(* find_best_guess_minimax *)

\* max(pattern_counts.values()): the size of the largest set of possible words
\* that give one pattern against the guess.
MaxRemaining(L, guess, pw) ==
    LET pats == [i \in 1..Len(pw) |-> GetPattern(L, guess, pw[i])]
        size(i) == Cardinality({j \in 1..Len(pw) : pats[j] = pats[i]})
    IN  CHOOSE n \in {size(i) : i \in 1..Len(pw)} :
            \A i \in 1..Len(pw) : size(i) <= n

\* float('inf'): above every bucket size of the possible words.
Infinity(pw) == Len(pw) + 1

\* A loop without the tie rule: an equally good guess never replaces the
\* best one.
TieNeverReplaces(guess, best_guess, pw) == FALSE

\* The tie rule of the loop: an equally good guess replaces the best one when
\* it is a possible word and the best one is not.
TieReplaces(guess, best_guess, pw) ==
    guess \in Range(pw) /\ best_guess \notin Range(pw)

\* A loop that takes a better guess and forgets to lower min_max_remaining.
RECURSIVE MinimaxScanStale(_, _, _, _, _, _)
MinimaxScanStale(L, candidates, pw, i, best_guess, min_max_remaining) ==
    IF i > Len(candidates) THEN best_guess
    ELSE IF Len(candidates[i]) # L
         THEN MinimaxScanStale(L, candidates, pw, i + 1, best_guess,
                               min_max_remaining)
    ELSE LET guess == candidates[i]
             max_remaining == MaxRemaining(L, guess, pw)
         IN  IF max_remaining < min_max_remaining
             THEN MinimaxScanStale(L, candidates, pw, i + 1, guess,
                                   min_max_remaining)
             ELSE MinimaxScanStale(L, candidates, pw, i + 1, best_guess,
                                   min_max_remaining)

\* The loop over guess_candidates from the i-th candidate on.
RECURSIVE MinimaxScan(_, _, _, _, _, _)
MinimaxScan(L, candidates, pw, i, best_guess, min_max_remaining) ==
    IF i > Len(candidates) THEN best_guess
    ELSE IF Len(candidates[i]) # L
         THEN MinimaxScan(L, candidates, pw, i + 1, best_guess, min_max_remaining)
    ELSE LET guess == candidates[i]
             max_remaining == MaxRemaining(L, guess, pw)
         IN  IF max_remaining < min_max_remaining
             THEN MinimaxScan(L, candidates, pw, i + 1, guess, max_remaining)
             ELSE IF max_remaining = min_max_remaining
                     /\ TieReplaces(guess, best_guess, pw)
             THEN MinimaxScan(L, candidates, pw, i + 1, guess, min_max_remaining)
             ELSE MinimaxScan(L, candidates, pw, i + 1, best_guess, min_max_remaining)

\* guess_candidates: the whole word list while more than 2 words are possible.
GuessCandidates(aw, pw) == IF Len(pw) > 2 THEN aw ELSE pw

FindBestGuessMinimax(L, aw, pw) ==
    IF Len(pw) = 0 THEN None
    ELSE IF Len(pw) = 1 THEN pw[1]
    ELSE MinimaxScan(L, GuessCandidates(aw, pw), pw, 1, <<>>, Infinity(pw))

-----------------------------------------------------------------------------
(* The word list *)

Whitespace == {" ", "\n"}

\* str.strip()
RECURSIVE Strip(_)
Strip(s) ==
    IF Len(s) = 0 THEN s
    ELSE IF s[1] \in Whitespace THEN Strip(Tail(s))
    ELSE IF s[Len(s)] \in Whitespace THEN Strip(SubSeq(s, 1, Len(s) - 1))
    ELSE s

\* The lines of the word list file: three words of two letters, one of them
\* a second time in capitals, and a word of three letters.
WordFile ==
    << <<"a", "a", "\n">>, <<"a", "b", "\n">>, <<"b", "a", "\n">>,
       <<"A", "B", "\n">>, <<"a", "a", "b">> >>

\* The lines of the word list file of the sessions with a secret: three words
\* of three letters and a word of two letters.
HonestFile ==
    << <<"a", "a", "b", "\n">>, <<"b", "b", "a", "\n">>,
       <<"b", "a", "c", "\n">>, <<"a", "b">> >>

\* _load_words: {line.strip().lower() for line in f}
LoadWords(file) == {Lower(Strip(file[i])) : i \in 1..Len(file)}

\* Every order of the words of a set.
Orders(words) ==
    {order \in [1..Cardinality(words) -> words] : Range(order) = words}

\* The orders in which the set self.all_words can be iterated: the order of a
\* set of strings depends on the hash seed of the process, so every order of
\* the words of _load_words is one.
IterationOrders(file) == Orders(LoadWords(file))

\* set.remove(word) and list.remove(word): the first occurrence goes.
RECURSIVE RemoveWord(_, _)
RemoveWord(words, word) ==
    IF Len(words) = 0 THEN words
    ELSE IF Head(words) = word THEN Tail(words)
    ELSE <<Head(words)>> \o RemoveWord(Tail(words), word)

\* _remove_word_from_database: the file without the lines of the word.
RemoveWordFromDatabase(file, word_to_remove) ==
    SelectSeq(file, LAMBDA line : Lower(Strip(line)) # word_to_remove)

\* self.possible_words = [w for w in self.all_words if len(w) == self.word_length]
OfLength(words, L) == SelectSeq(words, LAMBDA w : Len(w) = L)

-----------------------------------------------------------------------------
(* What the player types *)

\* The word lengths of the sessions.
SessionLengths == {2}

NewCommand == <<"/", "n", "e", "w">>

\* Answers to "Choose algorithm" and to "Enable Hard Mode?".
AlgoChoices == {<<"1">>, <<"2">>, <<" ", "1">>, <<>>}
HardChoices == {<<"y">>, <<"Y", " ">>, <<"n">>, <<>>}

\* The letters of the guesses the player makes up.
GuessLetters == {"a", "b"}

\* Guesses: the suggestion, every word of the session's length over
\* GuessLetters, one in capitals, one that is too long, and the command
\* '/new'.
GuessInputs(L) ==
    {suggested_guess}
    \cup Strings(GuessLetters, L)
    \cup {[i \in 1..L |-> IF i = 1 THEN "A" ELSE "b"],
          [i \in 1..(L + 1) |-> "a"],
          NewCommand}

\* Results: every string of marks of the session's length, one in capitals,
\* one that is too long and one with a character that is no mark.
ResultInputs(L) ==
    Strings(Marks, L)
    \cup {[i \in 1..L |-> IF i = 1 THEN "G" ELSE "y"],
          [i \in 1..(L + 1) |-> "g"],
          [i \in 1..L |-> IF i = 1 THEN "x" ELSE "g"]}

-----------------------------------------------------------------------------
(* WordleSolver.__init__ *)

InitSolver(L, file, order) ==
    /\ word_length = L
    /\ word_file = file
    /\ all_words = order
    /\ possible_words = OfLength(order, L)
    /\ algorithm = "minimax"
    /\ hard_mode = FALSE
    /\ green_pattern = [i \in 1..L |-> "-"]
    /\ yellow_misplaced = <<>>
    /\ letter_min_counts = <<>>
    /\ letter_max_counts = <<>>
    /\ greys = {}
    /\ turn = 1
    /\ pc = "choose"
    /\ suggested_guess = None
    /\ last_guess = None
    /\ secrets = Strings(SecretLetters, L)
    /\ pattern = None

Init ==
    /\ \E L \in SessionLengths, order \in IterationOrders(WordFile) :
           InitSolver(L, WordFile, order)
    /\ secret = None

-----------------------------------------------------------------------------
(* run() *)

\* The two questions before the loop.
Configure(algo_choice, hard_mode_choice) ==
    /\ pc = "choose"
    /\ algorithm' = IF Strip(algo_choice) = <<"1">> THEN "frequency" ELSE algorithm
    /\ hard_mode' = IF Lower(Strip(hard_mode_choice)) = <<"y">> THEN TRUE ELSE hard_mode
    /\ pc' = "top"
    /\ UNCHANGED <<word_length, all_words, possible_words, knowledge, turn,
                   suggested_guess, last_guess, word_file, secret, secrets, pattern>>

\* The guess the selected algorithm finds.
BestGuess ==
    IF algorithm = "minimax"
    THEN FindBestGuessMinimax(word_length, all_words, possible_words)
    ELSE FindBestGuessFrequency(possible_words)

\* "if not suggested_guess": None and the empty string are false.
Falsy(guess) == guess = None \/ guess = <<>>

\* The head of the loop, with a guess to suggest: the suggestion is shown and
\* last_guess is cleared.
Suggest ==
    /\ pc = "top"
    /\ ~Falsy(BestGuess)
    /\ suggested_guess' = BestGuess
    /\ last_guess' = <<>>
    /\ pc' = "guess"
    /\ UNCHANGED <<word_length, all_words, possible_words, algorithm, hard_mode,
                   knowledge, turn, word_file, secret, secrets, pattern>>

\* The head of the loop, with no guess to suggest: run() returns.
NoMatch ==
    /\ pc = "top"
    /\ Falsy(BestGuess)
    /\ suggested_guess' = BestGuess
    /\ pc' = "no_match"
    /\ UNCHANGED <<word_length, all_words, possible_words, algorithm, hard_mode,
                   knowledge, turn, last_guess, word_file, secret, secrets, pattern>>

\* '/new': the suggestion leaves the word list, the possible words and the
\* file, and the loop starts over.
NewSuggestion(input) ==
    /\ pc = "guess"
    /\ Lower(input) = NewCommand
    /\ last_guess' = Lower(input)
    /\ all_words' = RemoveWord(all_words, suggested_guess)
    /\ possible_words' = IF suggested_guess \in Range(possible_words)
                         THEN RemoveWord(possible_words, suggested_guess)
                         ELSE possible_words
    /\ word_file' = RemoveWordFromDatabase(word_file, suggested_guess)
    /\ pc' = "top"
    /\ UNCHANGED <<word_length, algorithm, hard_mode, knowledge, turn,
                   suggested_guess, secret, secrets, pattern>>

\* A guess of the wrong length: last_guess holds the text, and the question
\* is asked again.
RejectLength(input) ==
    /\ pc = "guess"
    /\ Lower(input) # NewCommand
    /\ Len(Lower(input)) # word_length
    /\ last_guess' = Lower(input)
    /\ UNCHANGED <<word_length, all_words, possible_words, algorithm, hard_mode,
                   knowledge, turn, pc, suggested_guess, word_file, secret,
                   secrets, pattern>>

\* A guess that breaks the hard mode rules: last_guess holds the text, and
\* the question is asked again.
RejectHardMode(input) ==
    /\ pc = "guess"
    /\ Lower(input) # NewCommand
    /\ Len(Lower(input)) = word_length
    /\ hard_mode
    /\ ~IsValidHardModeGuess(Lower(input), green_pattern, yellow_misplaced)
    /\ last_guess' = Lower(input)
    /\ UNCHANGED <<word_length, all_words, possible_words, algorithm, hard_mode,
                   knowledge, turn, pc, suggested_guess, word_file, secret,
                   secrets, pattern>>

\* A guess that is taken: its results are asked for.
AcceptGuess(input) ==
    /\ pc = "guess"
    /\ Lower(input) # NewCommand
    /\ Len(Lower(input)) = word_length
    /\ ~(hard_mode
         /\ ~IsValidHardModeGuess(Lower(input), green_pattern, yellow_misplaced))
    /\ last_guess' = Lower(input)
    /\ pc' = "results"
    /\ UNCHANGED <<word_length, all_words, possible_words, algorithm, hard_mode,
                   knowledge, turn, suggested_guess, word_file, secret, secrets, pattern>>

\* A format test that looks at the length only.
InvalidResultsLengthOnly(results_input, L) == Len(results_input) # L

\* len(results_input) != self.word_length or not all(c in 'gy-' ...)
InvalidResults(results_input, L) ==
    Len(results_input) # L \/ ~(\A i \in 1..Len(results_input) : results_input[i] \in Marks)

\* Results of the wrong format: the loop starts over.
RejectResults(input) ==
    /\ pc = "results"
    /\ InvalidResults(Lower(input), word_length)
    /\ pc' = "top"
    /\ UNCHANGED <<word_length, all_words, possible_words, algorithm, hard_mode,
                   knowledge, turn, suggested_guess, last_guess, word_file,
                   secret, secrets, pattern>>

\* All green: the loop ends.
Solved(input) ==
    /\ pc = "results"
    /\ ~InvalidResults(Lower(input), word_length)
    /\ Lower(input) = [i \in 1..word_length |-> "g"]
    /\ pc' = "solved"
    /\ UNCHANGED <<word_length, all_words, possible_words, algorithm, hard_mode,
                   knowledge, turn, suggested_guess, last_guess, word_file,
                   secret, secrets, pattern>>

\* self._update_knowledge(last_guess, results_input); self._filter_words();
\* self.turn += 1
Round(input) ==
    /\ pc = "results"
    /\ ~InvalidResults(Lower(input), word_length)
    /\ Lower(input) # [i \in 1..word_length |-> "g"]
    /\ turn < MaxTurn
    /\ green_pattern' = UpdateGreen(green_pattern, last_guess, Lower(input))
    /\ yellow_misplaced' = UpdateYellow(yellow_misplaced, last_guess, Lower(input))
    /\ letter_min_counts' = UpdateMin(letter_min_counts, last_guess, Lower(input))
    /\ letter_max_counts' = UpdateMax(letter_max_counts, last_guess, Lower(input))
    /\ greys' = UpdateGreys(greys, last_guess, Lower(input))
    /\ possible_words' = FilterWords(possible_words, green_pattern',
                                     yellow_misplaced', letter_min_counts',
                                     letter_max_counts', greys')
    /\ turn' = turn + 1
    /\ secrets' = {s \in secrets : GetPattern(word_length, last_guess, s) = Lower(input)}
    /\ pc' = "top"
    /\ UNCHANGED <<word_length, all_words, algorithm, hard_mode,
                   suggested_guess, last_guess, word_file, secret, pattern>>

Next ==
    \/ \E a \in AlgoChoices, h \in HardChoices : Configure(a, h)
    \/ Suggest
    \/ NoMatch
    \/ \E input \in GuessInputs(word_length) : NewSuggestion(input)
    \/ \E input \in GuessInputs(word_length) : RejectLength(input)
    \/ \E input \in GuessInputs(word_length) : RejectHardMode(input)
    \/ \E input \in GuessInputs(word_length) : AcceptGuess(input)
    \/ \E input \in ResultInputs(word_length) : RejectResults(input)
    \/ \E input \in ResultInputs(word_length) : Solved(input)
    \/ \E input \in ResultInputs(word_length) : Round(input)

Spec == Init /\ [][Next]_vars

-----------------------------------------------------------------------------
(* Sessions of the solver beside a game of sim.py *)

\* The word lengths of the sessions with a secret.
HonestLengths == {3}

\* The game and the solver start on the same file; the game draws its secret
\* among the words of the session's length.
InitHonest ==
    \E L \in HonestLengths, order \in IterationOrders(HonestFile) :
        /\ InitSolver(L, HonestFile, order)
        /\ secret \in Range(OfLength(order, L))

\* valid_words of the game: the words of the session's length in the file,
\* as the game read it when it started.
ValidWords(file) == {w \in LoadWords(file) : Len(w) = word_length}

\* The game takes last_guess as a guess: it has the session's length and is
\* one of valid_words. Any other guess is turned down and gets no squares.
GameTakes(file) ==
    /\ Len(last_guess) = word_length
    /\ last_guess \in ValidWords(file)

\* The mark the player types for a square of the game.
MarkOf(square) ==
    CASE square = GreenSquare -> "g"
      [] square = YellowSquare -> "y"
      [] square = WhiteSquare -> "-"

\* What the game answers to last_guess, typed as marks.
HonestResults ==
    [i \in 1..word_length |-> MarkOf(CheckGuess(last_guess, secret)[i])]

\* The player types the squares of the game as the results. For a guess the
\* game has turned down there are no squares: the player types something
\* that is no result, and the solver's loop starts over.
NextHonest ==
    \/ \E a \in AlgoChoices, h \in HardChoices : Configure(a, h)
    \/ Suggest
    \/ NoMatch
    \/ \E input \in GuessInputs(word_length) : NewSuggestion(input)
    \/ \E input \in GuessInputs(word_length) : RejectLength(input)
    \/ \E input \in GuessInputs(word_length) : RejectHardMode(input)
    \/ \E input \in GuessInputs(word_length) : AcceptGuess(input)
    \/ \E input \in ResultInputs(word_length) :
           ~GameTakes(HonestFile) /\ RejectResults(input)
    \/ GameTakes(HonestFile) /\ Solved(HonestResults)
    \/ GameTakes(HonestFile) /\ Round(HonestResults)

SpecHonest == InitHonest /\ [][NextHonest]_vars

-----------------------------------------------------------------------------
(* Sessions whose results are the encoder's patterns against one word *)

\* The solver on the file of the sessions with a secret, and a word of the
\* session's length in the list that the results are computed against.
InitSecret ==
    \E L \in HonestLengths, order \in IterationOrders(HonestFile) :
        /\ InitSolver(L, HonestFile, order)
        /\ secret \in Range(OfLength(order, L))

\* The results the player types: the pattern of _get_pattern for last_guess
\* against the secret, whether last_guess is a word of the list or not.
EncoderResults == GetPattern(word_length, last_guess, secret)

NextSecret ==
    \/ \E a \in AlgoChoices, h \in HardChoices : Configure(a, h)
    \/ Suggest
    \/ NoMatch
    \/ \E input \in GuessInputs(word_length) : NewSuggestion(input)
    \/ \E input \in GuessInputs(word_length) : RejectLength(input)
    \/ \E input \in GuessInputs(word_length) : RejectHardMode(input)
    \/ \E input \in GuessInputs(word_length) : AcceptGuess(input)
    \/ Solved(EncoderResults)
    \/ Round(EncoderResults)

SpecSecret == InitSecret /\ [][NextSecret]_vars

-----------------------------------------------------------------------------
(* Sessions in which the player enters every suggestion *)

\* The lines of a word list file of four words of five letters.
SuggestionFile ==
    << <<"a", "a", "b", "b", "x", "\n">>, <<"b", "a", "c", "c", "c", "\n">>,
       <<"d", "d", "a", "b", "d", "\n">>, <<"e", "b", "e", "e", "a", "\n">> >>

\* The solver on that file, against a secret that is one of its words; the
\* words that can have given the results are looked for among the words of
\* the file.
InitFollow ==
    \E order \in IterationOrders(SuggestionFile) :
        /\ word_length = Len(order[1])
        /\ word_file = SuggestionFile
        /\ all_words = order
        /\ possible_words = OfLength(order, word_length)
        /\ algorithm = "minimax"
        /\ hard_mode = FALSE
        /\ green_pattern = [i \in 1..word_length |-> "-"]
        /\ yellow_misplaced = <<>>
        /\ letter_min_counts = <<>>
        /\ letter_max_counts = <<>>
        /\ greys = {}
        /\ turn = 1
        /\ pc = "choose"
        /\ suggested_guess = None
        /\ last_guess = None
        /\ secret \in Range(possible_words)
        /\ secrets = Range(possible_words)
        /\ pattern = None

\* The player types the suggestion as the guess and what the game answers as
\* the results, and never '/new'.
NextFollow ==
    \/ \E a \in AlgoChoices, h \in HardChoices : Configure(a, h)
    \/ Suggest
    \/ AcceptGuess(suggested_guess)
    \/ GameTakes(SuggestionFile) /\ Solved(HonestResults)
    \/ GameTakes(SuggestionFile) /\ Round(HonestResults)

SpecFollow == InitFollow /\ [][NextFollow]_vars

-----------------------------------------------------------------------------
(* Sessions of free guesses beside a game, on words with a common start *)

\* The lines of a word list file: four words that start with "ab" and one
\* word that shares no place with them.
HardModeFile ==
    << <<"a", "b", "a", "\n">>, <<"a", "b", "c", "\n">>,
       <<"a", "b", "d", "\n">>, <<"a", "b", "e", "\n">>,
       <<"c", "d", "a", "\n">> >>

\* The solver on that file, against a secret that is one of its words.
InitHardMode ==
    \E order \in IterationOrders(HardModeFile) :
        /\ InitSolver(Len(order[1]), HardModeFile, order)
        /\ secret \in Range(order)

\* What the player types as a guess: the suggestion or any word over
\* GuessLetters.
HardModeGuesses == {suggested_guess} \cup Strings(GuessLetters, word_length)

\* The player types any guess, and the squares of the game as the results;
\* after a guess the game has turned down, something that is no result.
NextHardMode ==
    \/ \E a \in AlgoChoices, h \in HardChoices : Configure(a, h)
    \/ Suggest
    \/ \E input \in HardModeGuesses : RejectHardMode(input)
    \/ \E input \in HardModeGuesses : AcceptGuess(input)
    \/ \E input \in ResultInputs(word_length) :
           ~GameTakes(HardModeFile) /\ RejectResults(input)
    \/ GameTakes(HardModeFile) /\ Solved(HonestResults)
    \/ GameTakes(HardModeFile) /\ Round(HonestResults)

SpecHardMode == InitHardMode /\ [][NextHardMode]_vars

-----------------------------------------------------------------------------
(* The encoder alone, on words of three and of five letters *)

\* The words the encoder is given: every word of three letters over Letters
\* and four words of five letters.
EncoderWords ==
    Strings(Letters, 3)
    \cup {<<"s", "p", "e", "e", "d">>, <<"e", "r", "a", "s", "e">>,
          <<"c", "r", "a", "n", "e">>, <<"s", "l", "a", "t", "e">>}

InitEncoder ==
    /\ \E guess \in EncoderWords, answer \in EncoderWords :
           /\ Len(guess) = Len(answer)
           /\ word_length = Len(guess)
           /\ last_guess = guess
           /\ secret = answer
    /\ word_file = <<>>
    /\ all_words = <<>>
    /\ possible_words = <<>>
    /\ algorithm = "minimax"
    /\ hard_mode = FALSE
    /\ green_pattern = [i \in 1..word_length |-> "-"]
    /\ yellow_misplaced = <<>>
    /\ letter_min_counts = <<>>
    /\ letter_max_counts = <<>>
    /\ greys = {}
    /\ turn = 1
    /\ pc = "encode"
    /\ suggested_guess = None
    /\ secrets = {secret}
    /\ pattern = None

\* pattern = self._get_pattern(guess, answer)
Encode ==
    /\ pc = "encode"
    /\ pattern' = GetPattern(word_length, last_guess, secret)
    /\ pc' = "encoded"
    /\ UNCHANGED <<word_length, all_words, possible_words, algorithm, hard_mode,
                   knowledge, turn, suggested_guess, last_guess, word_file,
                   secret, secrets>>

SpecEncoder == InitEncoder /\ [][Encode]_vars

-----------------------------------------------------------------------------
(* Sessions on a list of five words, for every iteration order *)

\* The lines of a word list file of five words of three letters.
SelectFile ==
    << <<"b", "b", "c", "\n">>, <<"b", "c", "c", "\n">>,
       <<"c", "c", "a", "\n">>, <<"b", "c", "b", "\n">>,
       <<"c", "a", "a", "\n">> >>

\* The guesses the player types: three words that are not in the list and
\* two that are.
SelectGuesses ==
    {<<"a", "a", "a">>, <<"b", "a", "a">>, <<"b", "b", "b">>,
     <<"c", "a", "a">>, <<"b", "c", "b">>}

\* The results the player types: nine of the strings of three marks.
SelectResults ==
    {<<"-", "-", "-">>, <<"y", "-", "-">>, <<"-", "y", "-">>,
     <<"-", "-", "y">>, <<"g", "-", "-">>, <<"-", "g", "-">>,
     <<"g", "-", "y">>, <<"y", "y", "-">>, <<"-", "g", "y">>}

\* The solver on that file.
InitSelect ==
    /\ \E order \in IterationOrders(SelectFile) :
           InitSolver(Len(order[1]), SelectFile, order)
    /\ secret = None

\* The player chooses an algorithm and no hard mode, and types guesses of
\* SelectGuesses and results of SelectResults.
NextSelect ==
    \/ \E a \in AlgoChoices : Configure(a, <<"n">>)
    \/ Suggest
    \/ NoMatch
    \/ \E input \in SelectGuesses : AcceptGuess(input)
    \/ \E input \in SelectResults : Round(input)

SpecSelect == InitSelect /\ [][NextSelect]_vars

-----------------------------------------------------------------------------
(* Properties of the encoder *)

\* The positions of the guess that hold char and are marked 'g' or 'y'.
Marked(guess, pat, char) ==
    {i \in 1..Len(guess) : guess[i] = char /\ pat[i] \in {"g", "y"}}

Speed == <<"s", "p", "e", "e", "d">>
Erase == <<"e", "r", "a", "s", "e">>
Crane == <<"c", "r", "a", "n", "e">>
Slate == <<"s", "l", "a", "t", "e">>

\* C1: for every guess and answer of one length and every letter, the encoder
\* marks at most as many positions that hold the letter 'g' or 'y' as the
\* answer has copies of the letter; 'speed' against 'erase' gets at most two
\* such marks for 'e'.
EncoderMarksAtMostAnswerCount ==
    pc = "encoded" =>
        /\ \A c \in Range(last_guess) :
               Cardinality(Marked(last_guess, pattern, c)) <= Count(secret, c)
        /\ (last_guess = Speed /\ secret = Erase)
               => Cardinality(Marked(last_guess, pattern, "e")) <= 2

\* The encoder has run on a guess with more copies of a letter than the answer
\* has, and every copy of the answer is marked.
WitnessSurplusLetter ==
    /\ pc = "encoded"
    /\ \E c \in Range(last_guess) :
           /\ Count(secret, c) > 0
           /\ Count(last_guess, c) > Count(secret, c)
           /\ Cardinality(Marked(last_guess, pattern, c)) = Count(secret, c)

\* C2: the encoder's pattern has one mark of 'g', 'y', '-' for each of the L
\* positions, and a position is 'g' exactly when guess and answer hold the
\* same letter there; 'crane' against 'slate' gives --g-g.
EncoderGreenIffSameLetter ==
    pc = "encoded" =>
        /\ Len(pattern) = word_length
        /\ \A i \in 1..word_length :
               /\ pattern[i] \in Marks
               /\ pattern[i] = "g" <=> last_guess[i] = secret[i]
        /\ (last_guess = Crane /\ secret = Slate)
               => pattern = <<"-", "-", "g", "-", "g">>

\* The encoder has run on 'crane' against 'slate'.
WitnessCraneSlate ==
    /\ pc = "encoded"
    /\ last_guess = Crane
    /\ secret = Slate
    /\ pattern = <<"-", "-", "g", "-", "g">>

-----------------------------------------------------------------------------
(* Properties of the knowledge and of the candidates *)

\* The five conditions of the candidate filter, for a word and a knowledge
\* state: green letters in place, no grey letter, every minimal count
\* reached, every maximal count met exactly, no letter at a position it is
\* excluded from.
Survives(w, gp, ym, mn, mx, gs) ==
    /\ \A i \in 1..Len(gp) : gp[i] # "-" => w[i] = gp[i]
    /\ Range(w) \cap gs = {}
    /\ \A c \in DOMAIN mn : Count(w, c) >= mn[c]
    /\ \A c \in DOMAIN mx : Count(w, c) = mx[c]
    /\ \A c \in DOMAIN ym : \A p \in ym[c] : w[p + 1] # c

\* A step that is a round: an update, the filter, and the next turn.
IsRound == pc = "results" /\ turn' = turn + 1

\* The words of the session's length in the word list.
Dictionary == Range(OfLength(all_words, word_length))

\* Every result so far is the feedback of one and the same secret word.
Consistent == secrets # {}

\* C3: the filter keeps a word of its input list if and only if the word
\* meets all five conditions under the knowledge of the moment, and keeps
\* nothing else.
FilterKeepsExactlySurvivors ==
    [][IsRound =>
          /\ Range(possible_words') \subseteq Range(possible_words)
          /\ \A w \in Range(possible_words) :
                 w \in Range(possible_words')
                     <=> Survives(w, green_pattern', yellow_misplaced',
                                  letter_min_counts', letter_max_counts', greys')
      ]_vars

\* A round has been played whose filter dropped some words and kept others,
\* with a yellow exclusion and a maximal count in the knowledge.
WitnessFilterSplit ==
    /\ pc = "top"
    /\ turn > 1
    /\ Len(possible_words) > 0
    /\ Len(possible_words) < Cardinality(Dictionary)
    /\ DOMAIN yellow_misplaced # {}
    /\ DOMAIN letter_max_counts # {}

\* C4 (as claimed): no letter is in greys and has a positive minimal count.
NoGreyLetterWithMinCount ==
    \A c \in greys : Get0(letter_min_counts, c) = 0

\* C5 (as claimed): every maximal count that is defined is at least the
\* letter's minimal count.
MaxCountAtLeastMinCount ==
    \A c \in DOMAIN letter_max_counts :
        letter_max_counts[c] >= Get0(letter_min_counts, c)

\* C5 (amended): a maximal count that is defined is at least the letter's
\* minimal count when every result so far is the feedback of one secret
\* word; with any results it is at most the minimal count.
MaxCountAtLeastMinCountWhenConsistent ==
    /\ Consistent => MaxCountAtLeastMinCount
    /\ \A c \in DOMAIN letter_max_counts :
           letter_max_counts[c] <= Get0(letter_min_counts, c)

\* Two rounds have been played with results of one secret word, and a letter
\* has a positive maximal count.
WitnessMaxCountConsistent ==
    /\ Consistent
    /\ turn > 2
    /\ \E c \in DOMAIN letter_max_counts : letter_max_counts[c] > 0

\* C6 (as claimed): no step relaxes the knowledge: a green position keeps its
\* letter, every yellow exclusion stays, no minimal count decreases, a
\* maximal count keeps its value and greys loses no letter.
KnowledgeOnlyTightens ==
    [][/\ \A i \in 1..word_length :
              green_pattern[i] # "-" => green_pattern'[i] = green_pattern[i]
       /\ \A c \in DOMAIN yellow_misplaced :
              /\ c \in DOMAIN yellow_misplaced'
              /\ yellow_misplaced[c] \subseteq yellow_misplaced'[c]
       /\ \A c \in DOMAIN letter_min_counts :
              Get0(letter_min_counts', c) >= letter_min_counts[c]
       /\ \A c \in DOMAIN letter_max_counts :
              /\ c \in DOMAIN letter_max_counts'
              /\ letter_max_counts'[c] = letter_max_counts[c]
       /\ greys \subseteq greys'
      ]_vars

\* C6 (amended): no step removes a yellow exclusion, lowers a minimal count
\* or takes a letter out of greys; a green position stays green and a maximal
\* count stays defined; and the green letter and the maximal count keep
\* their values when the results, the new one included, are the feedback of
\* one secret word.
KnowledgeOnlyTightensWhenConsistent ==
    [][/\ \A i \in 1..word_length :
              green_pattern[i] # "-" =>
                  /\ green_pattern'[i] # "-"
                  /\ Consistent' => green_pattern'[i] = green_pattern[i]
       /\ \A c \in DOMAIN yellow_misplaced :
              /\ c \in DOMAIN yellow_misplaced'
              /\ yellow_misplaced[c] \subseteq yellow_misplaced'[c]
       /\ \A c \in DOMAIN letter_min_counts :
              Get0(letter_min_counts', c) >= letter_min_counts[c]
       /\ \A c \in DOMAIN letter_max_counts :
              /\ c \in DOMAIN letter_max_counts'
              /\ Consistent' => letter_max_counts'[c] = letter_max_counts[c]
       /\ greys \subseteq greys'
      ]_vars

\* Two rounds have been played with results of one secret word; a position
\* is green, a letter has a yellow exclusion and a letter has a maximal
\* count.
WitnessKnowledgeAfterTwoRounds ==
    /\ Consistent
    /\ turn > 2
    /\ \E i \in 1..word_length : green_pattern[i] # "-"
    /\ \E c \in DOMAIN yellow_misplaced : yellow_misplaced[c] # {}
    /\ DOMAIN letter_max_counts # {}

\* C7: a round never adds a candidate: the possible words after the round
\* are among the possible words before it.
CandidatesOnlyShrink ==
    [][IsRound => Range(possible_words') \subseteq Range(possible_words)]_vars

\* Two rounds have been played, the second one under a green letter, and
\* candidates are left that are fewer than the words of the list.
WitnessCandidatesShrunk ==
    /\ pc = "top"
    /\ turn > 2
    /\ Len(possible_words) > 0
    /\ Len(possible_words) < Cardinality(Dictionary)
    /\ \E i \in 1..word_length : green_pattern[i] # "-"

\* C8 (as claimed): the possible words are the filter applied to the words of
\* the session's length in the word list, under the knowledge of the moment.
CandidatesAreFilteredDictionary ==
    Range(possible_words) =
        {w \in Dictionary :
            Survives(w, green_pattern, yellow_misplaced, letter_min_counts,
                     letter_max_counts, greys)}

\* C8 (amended): the possible words are among the words of the list that
\* meet the knowledge of the moment, and they are all of those words when
\* every result so far is the feedback of one secret word.
CandidatesWithinFilteredDictionary ==
    /\ Range(possible_words) \subseteq
           {w \in Dictionary :
               Survives(w, green_pattern, yellow_misplaced, letter_min_counts,
                        letter_max_counts, greys)}
    /\ Consistent => CandidatesAreFilteredDictionary

\* Two rounds have been played with results of one secret word, and some but
\* not all words of the list are possible.
WitnessFilteredDictionary ==
    /\ Consistent
    /\ pc = "top"
    /\ turn > 2
    /\ Len(possible_words) > 0
    /\ Len(possible_words) < Cardinality(Dictionary)

-----------------------------------------------------------------------------
(* Properties of the minimax selector *)

\* The size of the largest bucket: the most possible words that give one and
\* the same pattern against the guess g.
LargestBucket(g) ==
    LET sizes == {Cardinality({w \in Range(possible_words) :
                                  GetPattern(word_length, g, w) = p}) :
                     p \in Strings(Marks, word_length)}
    IN  CHOOSE n \in sizes : \A m \in sizes : m <= n

\* The pool minimax evaluates: the words of the session's length in the word
\* list while more than 2 words are possible, the possible words after that.
EvaluatedPool ==
    IF Len(possible_words) > 2 THEN Dictionary ELSE Range(possible_words)

\* Minimax has just suggested a guess out of two or more possible words.
MinimaxSuggested ==
    pc = "guess" /\ algorithm = "minimax" /\ Len(possible_words) >= 2

\* C9: with two or more possible words, the guess minimax returns is a word
\* of the evaluated pool whose largest bucket is no larger than the largest
\* bucket of any other word of the pool.
MinimaxGuessIsMinimal ==
    MinimaxSuggested =>
        /\ suggested_guess \in EvaluatedPool
        /\ \A g \in EvaluatedPool :
               LargestBucket(suggested_guess) <= LargestBucket(g)

\* Minimax has suggested a guess out of more than two possible words, and a
\* word of the pool has a larger largest bucket than the suggestion.
WitnessMinimaxChoice ==
    /\ MinimaxSuggested
    /\ Len(possible_words) > 2
    /\ \E g \in EvaluatedPool :
           LargestBucket(g) > LargestBucket(suggested_guess)

\* C10: for every iteration order of the word list, if a possible word is
\* among the words of the pool with the smallest largest bucket, the guess
\* minimax returns is a possible word.
MinimaxPrefersCandidate ==
    (/\ MinimaxSuggested
     /\ \E g \in EvaluatedPool \cap Range(possible_words) :
            \A h \in EvaluatedPool : LargestBucket(g) <= LargestBucket(h))
        => suggested_guess \in Range(possible_words)

\* Minimax has suggested a possible word although a word that is not
\* possible is as good and comes first in the iteration order.
WitnessMinimaxTie ==
    /\ MinimaxSuggested
    /\ suggested_guess \in Range(possible_words)
    /\ \E i, j \in 1..Len(all_words) :
           /\ i < j
           /\ all_words[j] = suggested_guess
           /\ Len(all_words[i]) = word_length
           /\ all_words[i] \notin Range(possible_words)
           /\ LargestBucket(all_words[i]) = LargestBucket(suggested_guess)
           /\ \A k \in 1..(j - 1) :
                  Len(all_words[k]) = word_length
                      => LargestBucket(all_words[k]) >= LargestBucket(all_words[i])

-----------------------------------------------------------------------------
(* Properties of a round against a secret word *)

NoRepeatedLetter(w) == \A i, j \in 1..Len(w) : i # j => w[i] # w[j]

\* A round whose guess is a word minimax evaluates and whose results are the
\* pattern of the guess against a secret that is a possible word.
IsRoundAgainstCandidate ==
    /\ IsRound
    /\ secret \in Range(possible_words)
    /\ Len(possible_words) >= 2
    /\ last_guess \in EvaluatedPool

\* C11: after a round against a secret that is a possible word,
\* at most as many words are possible as the largest bucket minimax computes
\* for the guess.
LargestBucketBoundsRound ==
    [][IsRoundAgainstCandidate =>
          Len(possible_words') <=
              MaxRemaining(word_length, last_guess, possible_words)
      ]_vars

-----------------------------------------------------------------------------
(* Properties of the frequency selector *)

\* The score of a word: for each of its distinct letters the number of
\* possible words that hold the letter, summed over the letters.
DistinctLetterScore(w) ==
    Cardinality({lw \in Range(w) \X (1..Len(possible_words)) :
                    lw[1] \in Range(possible_words[lw[2]])})

\* The frequency selector has just suggested a guess.
FrequencySuggested == pc = "guess" /\ algorithm = "frequency"

\* C12: the frequency selector returns a possible word whose score is
\* maximal among the possible words, and of the possible words with that
\* score the one that comes first in the list.
FrequencyGuessIsFirstMaximal ==
    FrequencySuggested =>
        \E k \in 1..Len(possible_words) :
            /\ suggested_guess = possible_words[k]
            /\ \A i \in 1..Len(possible_words) :
                   DistinctLetterScore(possible_words[i])
                       <= DistinctLetterScore(suggested_guess)
            /\ \A i \in 1..(k - 1) :
                   DistinctLetterScore(possible_words[i])
                       < DistinctLetterScore(suggested_guess)

\* The frequency selector has suggested a word that is not the first of the
\* list, before a word of the same score and after a word of a lower score.
WitnessFrequencyTie ==
    /\ FrequencySuggested
    /\ \E i, k, j \in 1..Len(possible_words) :
           /\ i < k /\ k < j
           /\ suggested_guess = possible_words[k]
           /\ DistinctLetterScore(possible_words[i])
                  < DistinctLetterScore(suggested_guess)
           /\ DistinctLetterScore(possible_words[j])
                  = DistinctLetterScore(suggested_guess)

-----------------------------------------------------------------------------
(* Properties of the selector's result *)

\* C13: with either algorithm the selector returns None exactly when no word
\* is possible, and a word of the session's length in the word list whenever
\* a word is possible; the loop suggests that word, and reports that no word
\* matches only on None.
SelectorNoneIffNoCandidate ==
    /\ (BestGuess = None) <=> (Len(possible_words) = 0)
    /\ Len(possible_words) > 0 =>
           /\ BestGuess \in Dictionary
           /\ Len(BestGuess) = word_length
           /\ ~Falsy(BestGuess)
    /\ pc = "guess" => (suggested_guess \in Dictionary /\ Len(possible_words) > 0)
    /\ pc = "no_match" => (suggested_guess = None /\ Len(possible_words) = 0)

\* The frequency selector has returned None after a round that left no
\* possible word.
WitnessNoMatch ==
    /\ pc = "no_match"
    /\ algorithm = "frequency"
    /\ turn > 1
    /\ suggested_guess = None
    /\ Len(possible_words) = 0

-----------------------------------------------------------------------------
(* Properties of the hard mode validator *)

After == <<"a", "f", "t", "e", "r">>

\* Some green letter of the knowledge is not at its place in the guess.
GreenUnmatched(guess) ==
    \E i \in 1..word_length : green_pattern[i] # "-" /\ guess[i] # green_pattern[i]

\* The validator turns the guess down.
Rejected(guess) ==
    ~IsValidHardModeGuess(guess, green_pattern, yellow_misplaced)

\* C14 (as claimed): the validator turns a guess down if and only if a green
\* letter is not matched or a letter with a positive minimal count does not
\* occur in the guess.
HardModeRejectsIffMinCountUnused ==
    \A guess \in Strings(Letters, word_length) :
        Rejected(guess) <=>
            \/ GreenUnmatched(guess)
            \/ \E c \in DOMAIN letter_min_counts :
                   letter_min_counts[c] > 0 /\ c \notin Range(guess)

\* C14 (amended): the validator turns a guess down if and only if a green
\* letter is not matched or a letter that was marked 'y' in some round does
\* not occur in the guess; these are the letters with a positive minimal
\* count when every result so far is the feedback of one secret word; a
\* guess taken in hard mode has passed the validator; and with 'c' green at
\* the first place 'after' is turned down.
HardModeRejectsIffYellowUnused ==
    /\ \A guess \in Strings(Letters, word_length) :
           Rejected(guess) <=>
               \/ GreenUnmatched(guess)
               \/ \E c \in DOMAIN yellow_misplaced : c \notin Range(guess)
    /\ Consistent => HardModeRejectsIffMinCountUnused
    /\ (pc = "results" /\ hard_mode) => ~Rejected(last_guess)
    /\ ~IsValidHardModeGuess(After, <<"c", "-", "-", "-", "-">>, <<>>)

\* In hard mode, after a round with results of one secret word that marked a
\* letter 'y', a guess that holds the letter was taken while a guess without
\* it is turned down.
WitnessHardModeGuess ==
    /\ Consistent
    /\ hard_mode
    /\ pc = "results"
    /\ turn > 1
    /\ \E c \in DOMAIN yellow_misplaced :
           /\ letter_min_counts[c] > 0
           /\ c \in Range(last_guess)
           /\ \E guess \in Strings(Letters, word_length) :
                  /\ c \notin Range(guess)
                  /\ ~GreenUnmatched(guess)
                  /\ Rejected(guess)

-----------------------------------------------------------------------------
(* Properties of the loop's input tests *)

\* Results, in lower case, that are not L marks of 'g', 'y', '-'.
MalformedResults(r) ==
    Len(r) # word_length \/ \E i \in 1..Len(r) : r[i] \notin {"g", "y", "-"}

\* A step of a loop that takes no malformed input: a guess of the wrong
\* length is never taken, malformed results never start a round or end the
\* session, the guess of a round has the session's length, and a step that
\* is no round leaves the knowledge and the turn alone, and the possible
\* words too unless it is the removal of '/new'.
MalformedInputRejected ==
    /\ pc = "guess" =>
           \A input \in GuessInputs(word_length) :
               (Lower(input) # NewCommand /\ Len(Lower(input)) # word_length)
                   => ~ENABLED AcceptGuess(input)
    /\ pc = "results" =>
           \A input \in ResultInputs(word_length) :
               MalformedResults(Lower(input))
                   => (~ENABLED Round(input) /\ ~ENABLED Solved(input))
    /\ IsRound => Len(last_guess) = word_length
    /\ ~IsRound =>
           /\ UNCHANGED <<knowledge, turn>>
           /\ (pc = "guess" /\ last_guess' = NewCommand) \/ UNCHANGED possible_words

\* C15 (as claimed): a guess of the wrong length, a guess that is not in the
\* word list and malformed results never reach the update and the filter, and
\* leave the knowledge, the possible words and the turn unchanged.
MalformedOrUnlistedInputRejected ==
    [][MalformedInputRejected /\ (IsRound => last_guess \in Dictionary)]_vars

\* C15 (amended): a guess of the wrong length and malformed results never
\* reach the update and the filter, and leave the knowledge, the possible
\* words and the turn unchanged (a guess of the session's length that is not
\* in the word list is taken).
MalformedInputNeverReachesCore == [][MalformedInputRejected]_vars

\* Malformed results were typed for a guess that is not in the word list, in
\* the first turn: the loop is at its head again with nothing changed.
WitnessResultsRejected ==
    /\ pc = "top"
    /\ turn = 1
    /\ Len(last_guess) = word_length
    /\ last_guess \notin Dictionary
    /\ Range(possible_words) = Dictionary
    /\ greys = {}
    /\ DOMAIN letter_min_counts = {}

-----------------------------------------------------------------------------
(* Properties of sessions whose results are patterns against one word *)

\* C16: when the secret is a word of the session's length in the word list
\* and every result is the pattern of the guess against it, the secret stays
\* a possible word after every round, whatever the guesses, and the loop
\* never reports that no word matches.
SecretStaysCandidate ==
    secret \in Dictionary =>
        /\ secret \in Range(possible_words)
        /\ pc # "no_match"

\* Two rounds were played against a secret with a repeated letter, the last
\* one with a guess that repeats a letter and is no word of the file, and
\* only the secret is possible.
WitnessSecretLeft ==
    /\ pc = "top"
    /\ turn = 3
    /\ word_length = 3
    /\ secret \in Dictionary
    /\ possible_words = <<secret>>
    /\ ~NoRepeatedLetter(secret)
    /\ ~NoRepeatedLetter(last_guess)
    /\ last_guess \notin LoadWords(HonestFile)
    /\ \E c \in DOMAIN letter_max_counts : letter_max_counts[c] > 0

-----------------------------------------------------------------------------
(* The solver's encoder and the game's feedback *)

\* The square of the game for a mark of the solver.
Square(mark) ==
    CASE mark = "g" -> GreenSquare
      [] mark = "y" -> YellowSquare
      [] mark = "-" -> WhiteSquare

\* C17: for every guess and answer of one length, the pattern of the solver's
\* encoder and the squares of the game's check_guess agree place by place:
\* 'g' with the green, 'y' with the yellow and '-' with the white square.
EncoderAgreesWithGame ==
    pc = "encoded" =>
        /\ Len(CheckGuess(last_guess, secret)) = Len(pattern)
        /\ \A i \in 1..Len(pattern) :
               CheckGuess(last_guess, secret)[i] = Square(pattern[i])

\* The encoder has run on a guess that repeats a letter of which the answer
\* has fewer copies: one copy is marked 'y', a later one '-', and the game
\* gives the same squares.
WitnessRepeatedLetterAgreement ==
    /\ pc = "encoded"
    /\ \E i, j \in 1..word_length :
           /\ i < j
           /\ last_guess[i] = last_guess[j]
           /\ pattern[i] = "y"
           /\ pattern[j] = "-"
           /\ CheckGuess(last_guess, secret)[i] = YellowSquare
           /\ CheckGuess(last_guess, secret)[j] = WhiteSquare

-----------------------------------------------------------------------------
(* Properties of the guess of a round *)

\* C18: after a round, whose results are not all green, the guess of the
\* round is not a possible word, whatever the knowledge and the possible
\* words were before.
WrongGuessIsDropped ==
    [][IsRound => last_guess \notin Range(possible_words')]_vars

\* The first round of a session was played with a word of the list that
\* repeats a letter, one copy of it marked and one grey; the guess is no
\* longer possible while other words are.
WitnessWrongGuessDropped ==
    /\ pc = "top"
    /\ turn = 2
    /\ word_file = WordFile
    /\ last_guess \in Dictionary
    /\ last_guess \notin Range(possible_words)
    /\ Len(possible_words) > 0
    /\ \E c \in Range(last_guess) :
           /\ c \in DOMAIN letter_max_counts
           /\ letter_max_counts[c] > 0
           /\ Count(last_guess, c) > letter_max_counts[c]

-----------------------------------------------------------------------------
(* Properties of sessions in which the player enters every suggestion *)

\* A round played with the suggestion as the guess.
IsSuggestedRound == IsRound /\ last_guess = suggested_guess

\* C19: when the secret is a word of the session's length in the word list,
\* every result is the pattern of the guess against it and every guess is the
\* suggestion, the session ends solved after at most as many rounds as the
\* list has words of that length. The suggestion is a function of the word
\* list and the possible words alone, and the possible words only shrink, so
\* this is: every round leaves fewer possible words than it found (a round
\* that leaves them all is followed by the same suggestion and the same
\* results for ever), and the turn counter never passes the number of words.
SuggestedRoundsEndSolved ==
    [][IsSuggestedRound =>
          /\ Len(possible_words') < Len(possible_words)
          /\ turn' <= Cardinality(Dictionary)
      ]_vars

-----------------------------------------------------------------------------
(* Properties of the suggestion in hard mode *)

\* C20: in hard mode, whenever a guess is suggested (some word is possible),
\* the hard mode rules accept the suggested guess, so that the player can
\* enter it.
SuggestionPassesHardMode ==
    (hard_mode /\ pc = "guess") =>
        /\ IsValidHardModeGuess(suggested_guess, green_pattern, yellow_misplaced)
        /\ ENABLED AcceptGuess(suggested_guess)

=============================================================================
